---- MODULE Spec2Model ----
(***************************************************************************)
(* Model of the AI Resume Assistant back end: the skill analyzer           *)
(* (services/analyzer.py), the document exporter                           *)
(* (services/pdf_generator.py) and the in-memory preference store          *)
(* (main.py).                                                              *)
(*                                                                         *)
(* A text is a sequence of chunks; the text it stands for is the           *)
(* concatenation of its chunks.  A chunk is either a single delimiter      *)
(* character or a run of identifier characters [A-Za-z0-9+#], so that two  *)
(* adjacent word chunks form one longer word, exactly as in the string.    *)
(* Percentages are kept in tenths (50.0 is 500): every value the analyzer  *)
(* returns is rounded to one decimal.                                      *)
(***************************************************************************)
EXTENDS Integers, Sequences, FiniteSets, TLC

VARIABLES
    pc,             \* "idle", or "returned" once a service call has returned
    call,           \* the call that returned: its name and its arguments
    result,         \* what the call returned
    docx_available, \* _DOCX_AVAILABLE, fixed when pdf_generator is imported
    theme,          \* _PREFERENCES["theme"]
    clients,        \* per client: its set-preference request and its answer
    lastAccepted,   \* history: the theme of the last request the handler ran
    npc,            \* position of the call of _normalize being stepped
    tokens,         \* _normalize: the tokens of line 19
    i,              \* _normalize: the loop index
    merged          \* _normalize: the output list

vars == <<pc, call, result, docx_available, theme, clients, lastAccepted,
          npc, tokens, i, merged>>

----------------------------------------------------------------------------
(* Bounds of the model. *)

MaxResumeLen == 3
MaxJobLen == 3
MaxOptLen == 4
MaxFmtLen == 3
MaxNormLen == 5
NumClients == 2

----------------------------------------------------------------------------
(* Generic helpers. *)

SeqsUpTo(S, n) == UNION {[1..k -> S] : k \in 0..n}

Range(s) == {s[k] : k \in 1..Len(s)}

Max(a, b) == IF a >= b THEN a ELSE b

Min(a, b) == IF a <= b THEN a ELSE b

----------------------------------------------------------------------------
(* services/analyzer.py: vocabulary and tokenizer. *)

KNOWN_SKILLS ==
    {"python", "fastapi", "flask", "django", "sql", "nosql", "mongodb", "postgresql",
     "docker", "kubernetes", "aws", "gcp", "azure", "ci/cd", "github actions",
     "unit testing", "pytest", "rest", "graphql", "redis", "celery", "rabbitmq",
     "nlp", "machine learning", "data science", "pandas", "numpy", "transformers"}

\* The delimiter characters the model's texts use: each is outside
\* [a-zA-Z0-9+#], the class _WORD_SPLIT_RE keeps.
Delimiters == {" ", "/", ",", "\n", "-", "."}

\* str.lower() on a word chunk: the chunks with an upper-case letter.
lower(c) ==
    CASE c = "Python" -> "python"
      [] c = "Docker" -> "docker"
      [] c = "Kubernetes" -> "kubernetes"
      [] c = "Machine" -> "machine"
      [] c = "Learning" -> "learning"
      [] c = "CI" -> "ci"
      [] c = "CD" -> "cd"
      [] c = "I" -> "i"
      [] c = "Looking" -> "looking"
      [] OTHER -> c

\* _WORD_SPLIT_RE.split(text), lower-cased, empty pieces dropped (line 19).
\* cur is the word being read ("" when none).
RECURSIVE SplitFrom(_, _, _)
SplitFrom(text, k, cur) ==
    IF k > Len(text)
    THEN IF cur = "" THEN <<>> ELSE <<cur>>
    ELSE IF text[k] \in Delimiters
         THEN (IF cur = "" THEN <<>> ELSE <<cur>>) \o SplitFrom(text, k + 1, "")
         ELSE SplitFrom(text, k + 1, cur \o lower(text[k]))

Tokenize(text) == SplitFrom(text, 1, "")

\* The condition of line 26: there is a next token and the pair, joined by
\* one space, is a vocabulary skill.
MergesAt(toks, k) ==
    /\ k + 1 <= Len(toks)
    /\ toks[k + 1] # ""
    /\ (toks[k] \o " " \o toks[k + 1]) \in KNOWN_SKILLS

\* What the loop body appends at index k (lines 27 and 30).
emit(toks, k) ==
    IF MergesAt(toks, k) THEN toks[k] \o " " \o toks[k + 1] ELSE toks[k]

\* By how much the loop body advances at index k (lines 28 and 31).
advance_one(toks, k) == 1
advance(toks, k) == IF MergesAt(toks, k) THEN 2 ELSE 1

\* The merge loop of lines 23-31, from index k.
RECURSIVE MergeFrom(_, _)
MergeFrom(toks, k) ==
    IF k > Len(toks) THEN <<>>
    ELSE <<emit(toks, k)>> \o MergeFrom(toks, k + advance(toks, k))

_normalize(text) == MergeFrom(Tokenize(text), 1)

_extract_skills(text) == {t \in Range(_normalize(text)) : t \in KNOWN_SKILLS}

----------------------------------------------------------------------------
(* services/analyzer.py: analyze_resume. *)

\* Python's order on the vocabulary's strings (sorted, line 65).
SKILL_ORDER ==
    <<"aws", "azure", "celery", "ci/cd", "data science", "django", "docker",
      "fastapi", "flask", "gcp", "github actions", "graphql", "kubernetes",
      "machine learning", "mongodb", "nlp", "nosql", "numpy", "pandas",
      "postgresql", "pytest", "python", "rabbitmq", "redis", "rest", "sql",
      "transformers", "unit testing">>

StrRank(s) == CHOOSE k \in 1..Len(SKILL_ORDER) : SKILL_ORDER[k] = s

\* sorted(list(S)) for a set S of vocabulary skills.
RECURSIVE sorted(_)
sorted(S) ==
    IF S = {} THEN <<>>
    ELSE LET least == CHOOSE s \in S : \A t \in S : StrRank(s) <= StrRank(t)
         IN <<least>> \o sorted(S \ {least})

\* ", ".join(items)
RECURSIVE JoinStr(_, _)
JoinStr(items, sep) ==
    IF Len(items) = 0 THEN ""
    ELSE IF Len(items) = 1 THEN items[1]
    ELSE items[1] \o sep \o JoinStr(Tail(items), sep)

\* max(1, len(...)) of lines 58 and 63.
denom_unfloored(n) == n
denom(n) == Max(1, n)

\* round(x, 1) of x = num / den >= 0, in tenths: to the nearest tenth, a tie
\* to the even one.  Python rounds the double 100.0 * overlap / denom; a tie
\* 1000 * overlap / denom = q + 1/2 with denom < 2000 is a multiple of 1/4
\* percent, which the double holds exactly, so the double's rounding is this.
RoundTenths(num, den) ==
    LET q == num \div den
        r == num % den
    IN  IF 2 * r < den THEN q
        ELSE IF 2 * r > den THEN q + 1
        ELSE IF q % 2 = 0 THEN q ELSE q + 1

\* round(100.0 * overlap / denom, 1), lines 59 and 64, in tenths.
match_percent_floor(overlap, d) == (1000 * overlap) \div d
match_percent_of(overlap, d) == RoundTenths(1000 * overlap, d)

\* The condition of line 53: not job_skills.
use_fallback_resume(resume_skills, job_skills) == resume_skills = {}
use_fallback(resume_skills, job_skills) == job_skills = {}

\* missing_skills of lines 60 and 65.
missing_skills_of(resume_skills, job_skills) ==
    IF use_fallback(resume_skills, job_skills)
    THEN <<>>
    ELSE sorted(job_skills \ resume_skills)

MSG_QUANTIFY ==
    "Highlight relevant experience and quantify achievements with metrics (%, $, time)."
MSG_LEARN_PREFIX == "Consider learning or emphasizing: "
MSG_FASTAPI == "Add FastAPI projects or APIs to showcase backend skills."
MSG_KUBERNETES == "Explore Kubernetes basics to complement Docker skills."
MSG_DEFAULT ==
    "Great alignment. Ensure resume is concise (1-2 pages) and well-formatted."

\* missing_skills[:8]
FirstEight(s) == SubSeq(s, 1, Min(8, Len(s)))

\* The rule list of lines 67-79 and the default of lines 88-90.
suggestions_le60(match_percent, missing_skills, resume_skills) ==
    LET fired ==
            (IF match_percent <= 600 THEN <<MSG_QUANTIFY>> ELSE <<>>)
         \o (IF Len(missing_skills) > 0
             THEN <<MSG_LEARN_PREFIX \o JoinStr(FirstEight(missing_skills), ", ")>>
             ELSE <<>>)
         \o (IF "python" \in resume_skills /\ "fastapi" \notin resume_skills
             THEN <<MSG_FASTAPI>> ELSE <<>>)
         \o (IF "docker" \in resume_skills /\ "kubernetes" \notin resume_skills
             THEN <<MSG_KUBERNETES>> ELSE <<>>)
    IN  IF Len(fired) > 0 THEN fired ELSE <<MSG_DEFAULT>>
suggestions_of(match_percent, missing_skills, resume_skills) ==
    LET fired ==
            (IF match_percent < 600 THEN <<MSG_QUANTIFY>> ELSE <<>>)
         \o (IF Len(missing_skills) > 0
             THEN <<MSG_LEARN_PREFIX \o JoinStr(FirstEight(missing_skills), ", ")>>
             ELSE <<>>)
         \o (IF "python" \in resume_skills /\ "fastapi" \notin resume_skills
             THEN <<MSG_FASTAPI>> ELSE <<>>)
         \o (IF "docker" \in resume_skills /\ "kubernetes" \notin resume_skills
             THEN <<MSG_KUBERNETES>> ELSE <<>>)
    IN  IF Len(fired) > 0 THEN fired ELSE <<MSG_DEFAULT>>

\* penalty of line 82, in tenths.
penalty_added(missing_skills) == 0 - Min(300, 50 * Len(missing_skills))
penalty(missing_skills) == Min(300, 50 * Len(missing_skills))

\* ats_score of line 83, in tenths.
ats_score_of(match_percent, missing_skills) ==
    Max(0, Min(1000, match_percent - penalty(missing_skills)))

\* analyze_resume: the dictionary it returns, or the exception a division by
\* zero raises.
analyze_resume(resume_text, job_description) ==
    LET resume_skills == _extract_skills(resume_text)
        job_skills == _extract_skills(job_description)
        fallback == use_fallback(resume_skills, job_skills)
        resume_tokens == Range(_normalize(resume_text))
        job_tokens == Range(_normalize(job_description))
        overlap == IF fallback
                   THEN Cardinality(resume_tokens \cap job_tokens)
                   ELSE Cardinality(resume_skills \cap job_skills)
        d == IF fallback
             THEN denom(Cardinality(job_tokens))
             ELSE denom(Cardinality(job_skills))
        missing_skills == missing_skills_of(resume_skills, job_skills)
    IN  IF d = 0
        THEN [raised |-> "ZeroDivisionError"]
        ELSE LET match_percent == match_percent_of(overlap, d)
             IN  [raised |-> "",
                  match_percent |-> match_percent,
                  missing_skills |-> missing_skills,
                  suggestions |-> suggestions_of(match_percent, missing_skills,
                                                 resume_skills),
                  ats_score |-> ats_score_of(match_percent, missing_skills)]

----------------------------------------------------------------------------
(* The inputs of the analyzer's calls. *)

AnalyzerChunks == {"Python", "fastapi", "docker", "kubernetes", " "}

EX_RESUME ==
    <<"I", " ", "have", " ", "Python", " ", "and", " ", "Docker", " ", "experience">>
EX_JOB ==
    <<"Looking", " ", "for", " ", "Python", " ", "and", " ", "Kubernetes", " ", "skills">>
EX_FIVE_SKILLS ==
    <<"python", ",", " ", "docker", ",", " ", "kubernetes", ",", " ", "fastapi",
      ",", " ", "aws">>
EX_THREE_OF_FIVE == <<"python", " ", "docker", " ", "kubernetes">>
EX_FIVE_WORDS == <<"we", " ", "hire", " ", "good", " ", "java", " ", "people">>
EX_THREE_WORDS == <<"good", " ", "java", " ", "people", ".">>
EX_NO_SKILL_JOB == <<"experience", " ", "and", " ", "skills">>
EX_NINE_SKILLS ==
    <<"aws", " ", "azure", " ", "celery", " ", "django", " ", "flask", " ", "gcp",
      " ", "graphql", " ", "redis", " ", "sql">>
EX_SIXTEEN_SKILLS ==
    EX_NINE_SKILLS \o
    <<" ", "nlp", " ", "nosql", " ", "numpy", " ", "pandas", " ", "pytest", " ",
      "rest", " ", "rabbitmq">>
EX_THREE_OF_SIXTEEN == <<"aws", "\n", "nlp", "\n", "rest">>
EX_PHRASES ==
    <<"Machine", " ", "Learning", ",", " ", "unit", " ", "testing", ",", " ",
      "CI", "/", "CD">>

Examples ==
    {EX_RESUME, EX_JOB, EX_FIVE_SKILLS, EX_THREE_OF_FIVE, EX_FIVE_WORDS,
     EX_THREE_WORDS, EX_NO_SKILL_JOB, EX_NINE_SKILLS, EX_SIXTEEN_SKILLS, EX_THREE_OF_SIXTEEN,
     EX_PHRASES}

JobChunks == {"Python", "docker", "kubernetes", " "}

Resumes == SeqsUpTo(AnalyzerChunks, MaxResumeLen)
Jobs == SeqsUpTo(JobChunks, MaxJobLen)

AnalyzeInputs == (Resumes \X Jobs) \cup (Examples \X Examples)

\* Each vocabulary entry written out as a text.
SKILL_SPELLINGS ==
    {<<s>> : s \in {k \in KNOWN_SKILLS : StrRank(k) \notin {4, 5, 11, 14, 28}}}
    \cup {<<"ci", "/", "cd">>, <<"data", " ", "science">>,
          <<"github", " ", "actions">>, <<"machine", " ", "learning">>,
          <<"unit", " ", "testing">>}

ExtractChunks == {"ci", "cd", "CI", "/", " "}

ExtractInputs ==
    SeqsUpTo(ExtractChunks, MaxResumeLen) \cup Examples \cup SKILL_SPELLINGS

----------------------------------------------------------------------------------------------------------------------------------------
(* services/analyzer.py: optimize_resume. *)

\* The two lines of the header (line 122).
HEADER_1 == "SUMMARY"
HEADER_2 == "Results-driven professional with measurable achievements."
header == <<HEADER_1, "\n", HEADER_2, "\n">>

\* str.splitlines(): the pieces between line breaks, with no empty piece after
\* a final line break.
RECURSIVE LinesFrom(_, _, _)
LinesFrom(text, k, cur) ==
    IF k > Len(text)
    THEN IF cur = <<>> THEN <<>> ELSE <<cur>>
    ELSE IF text[k] = "\n"
         THEN <<cur>> \o LinesFrom(text, k + 1, <<>>)
         ELSE LinesFrom(text, k + 1, Append(cur, text[k]))

splitlines(text) == LinesFrom(text, 1, <<>>)

\* str.strip(): leading and trailing white space removed.
RECURSIVE lstrip(_)
lstrip(l) == IF Len(l) > 0 /\ l[1] = " " THEN lstrip(Tail(l)) ELSE l

RECURSIVE rstrip(_)
rstrip(l) ==
    IF Len(l) > 0 /\ l[Len(l)] = " " THEN rstrip(SubSeq(l, 1, Len(l) - 1)) ELSE l

strip(l) == rstrip(lstrip(l))

\* l.startswith("-"): "-" is the only chunk that starts with a hyphen.
startswith_bullet(l) == Len(l) > 0 /\ l[1] = "-"

\* Line 121, for one line.
bulletize_always(l) == <<"-", " ">> \o l
bulletize(l) == IF startswith_bullet(l) THEN l ELSE <<"-", " ">> \o l

\* "\n".join(lines)
RECURSIVE JoinLines(_)
JoinLines(lines) ==
    IF Len(lines) = 0 THEN <<>>
    ELSE IF Len(lines) = 1 THEN lines[1]
    ELSE lines[1] \o <<"\n">> \o JoinLines(Tail(lines))

optimize_resume(resume_text) ==
    LET stripped == [k \in 1..Len(splitlines(resume_text)) |->
                       strip(splitlines(resume_text)[k])]
        lines == SelectSeq(stripped, LAMBDA l : l # <<>>)
        bulletized == [k \in 1..Len(lines) |-> bulletize(lines[k])]
    IN  header \o JoinLines(bulletized)

OptChunks == {"-", " ", "\n", "a"}

OptInputs == SeqsUpTo(OptChunks, MaxOptLen)

----------------------------------------------------------------------------
(* services/pdf_generator.py: generate_resume_bytes.  A format is a        *)
(* sequence of characters.                                                 *)

lower_char(c) ==
    CASE c = "P" -> "p"
      [] c = "D" -> "d"
      [] c = "F" -> "f"
      [] c = "T" -> "t"
      [] c = "X" -> "x"
      [] c = "O" -> "o"
      [] c = "C" -> "c"
      [] OTHER -> c

\* str.lower()
lower_str(f) == [k \in 1..Len(f) |-> lower_char(f[k])]

PDF == <<"p", "d", "f">>
TXT == <<"t", "x", "t">>
DOCX == <<"d", "o", "c", "x">>

\* generate_resume_pdf: the rendered document, by what it renders (line 29).
generate_resume_pdf(resume_text) ==
    [title |-> "Resume",
     body |-> IF resume_text = <<>> THEN <<"(No content provided)">> ELSE resume_text]

\* (resume_text or "").encode("utf-8") (line 47).
encode_utf8(resume_text) == [encoding |-> "utf-8", text |-> resume_text]

\* generate_resume_bytes (lines 41-58): the tuple it returns, or the
\* exception it raises.  docx is _DOCX_AVAILABLE.
generate_resume_bytes_default_pdf(resume_text, fmt, docx) ==
    LET f == lower_str(IF fmt = <<>> THEN PDF ELSE fmt)
    IN  IF f = TXT
        THEN [raised |-> "", bytes |-> encode_utf8(resume_text),
              media_type |-> "text/plain; charset=utf-8", filename |-> "resume.txt"]
        ELSE IF f = DOCX /\ ~docx
        THEN [raised |-> "RuntimeError",
              message |-> "DOCX export requires python-docx. Please install it."]
        ELSE IF f = DOCX
        THEN [raised |-> "", bytes |-> [heading |-> "Resume", body |-> resume_text],
              media_type |->
                "application/vnd.openxmlformats-officedocument.wordprocessingml.document",
              filename |-> "resume.docx"]
        ELSE [raised |-> "", bytes |-> generate_resume_pdf(resume_text),
              media_type |-> "application/pdf", filename |-> "resume.pdf"]
generate_resume_bytes(resume_text, fmt, docx) ==
    LET f == lower_str(IF fmt = <<>> THEN PDF ELSE fmt)
    IN  IF f = PDF
        THEN [raised |-> "", bytes |-> generate_resume_pdf(resume_text),
              media_type |-> "application/pdf", filename |-> "resume.pdf"]
        ELSE IF f = TXT
        THEN [raised |-> "", bytes |-> encode_utf8(resume_text),
              media_type |-> "text/plain; charset=utf-8", filename |-> "resume.txt"]
        ELSE IF f = DOCX
        THEN IF ~docx
             THEN [raised |-> "RuntimeError",
                   message |-> "DOCX export requires python-docx. Please install it."]
             ELSE [raised |-> "",
                   bytes |-> [heading |-> "Resume", body |-> resume_text],
                   media_type |->
                     "application/vnd.openxmlformats-officedocument.wordprocessingml.document",
                   filename |-> "resume.docx"]
        ELSE [raised |-> "ValueError", message |-> "Unsupported format"]

FmtChars == {"p", "d", "f", "t", "x", "P"}

FmtInputs ==
    SeqsUpTo(FmtChars, MaxFmtLen)
    \cup {DOCX, <<"D", "O", "C", "X">>, <<"D", "o", "c", "x">>, <<"x", "m", "l">>,
          <<"P", "D", "F">>, <<"T", "x", "t">>, <<"p", "d", "f", " ">>}

ExportTexts == {<<>>, <<"A", "\n", "\n", "B">>}

----------------------------------------------------------------------------
(* The service calls. *)

NoCall == [op |-> "none"]
NoResult == [raised |-> "none"]

InitServices ==
    /\ pc = "idle"
    /\ call = NoCall
    /\ result = NoResult
    /\ theme = "light"
    /\ clients = [c \in 1..NumClients |-> [pc |-> "idle"]]
    /\ lastAccepted = "light"
    /\ npc = "idle"
    /\ tokens = <<>>
    /\ i = 0
    /\ merged = <<>>

\* python-docx is installed.
Init == InitServices /\ docx_available = TRUE

\* python-docx is installed or not (lines 7-11 of pdf_generator.py).
InitExport == InitServices /\ docx_available \in BOOLEAN

others == <<docx_available, theme, clients, lastAccepted, npc, tokens, i, merged>>

\* analyze_resume called on some pair of texts.
Analyze ==
    /\ pc = "idle"
    /\ \E in \in AnalyzeInputs :
          /\ call' = [op |-> "analyze_resume", resume |-> in[1], job |-> in[2]]
          /\ result' = analyze_resume(in[1], in[2])
    /\ pc' = "returned"
    /\ UNCHANGED others

\* _extract_skills called on some text.
ExtractSkills ==
    /\ pc = "idle"
    /\ \E text \in ExtractInputs :
          /\ call' = [op |-> "_extract_skills", text |-> text]
          /\ result' = _extract_skills(text)
    /\ pc' = "returned"
    /\ UNCHANGED others

\* optimize_resume called on some text.
Optimize ==
    /\ pc = "idle"
    /\ \E text \in OptInputs :
          /\ call' = [op |-> "optimize_resume", text |-> text, first |-> text,
                      round |-> 1]
          /\ result' = optimize_resume(text)
    /\ pc' = "returned"
    /\ UNCHANGED others

\* optimize_resume called on the text its previous call returned.
OptimizeAgain ==
    /\ pc = "returned"
    /\ call.op = "optimize_resume"
    /\ call.round = 1
    /\ call' = [call EXCEPT !.text = result, !.round = 2]
    /\ result' = optimize_resume(result)
    /\ UNCHANGED <<pc, others>>

\* generate_resume_bytes called on some text and format.
GenerateResumeBytes ==
    /\ pc = "idle"
    /\ \E text \in ExportTexts, fmt \in FmtInputs :
          /\ call' = [op |-> "generate_resume_bytes", text |-> text, fmt |-> fmt]
          /\ result' = generate_resume_bytes(text, fmt, docx_available)
    /\ pc' = "returned"
    /\ UNCHANGED others

\* The caller takes the result.
Return ==
    /\ pc = "returned"
    /\ pc' = "idle"
    /\ call' = NoCall
    /\ result' = NoResult
    /\ UNCHANGED others

Next ==
    \/ Analyze
    \/ ExtractSkills
    \/ Optimize
    \/ OptimizeAgain
    \/ Return

Spec == Init /\ [][Next]_vars

NextExport ==
    \/ GenerateResumeBytes
    \/ Return

SpecExport == InitExport /\ [][NextExport]_vars

----------------------------------------------------------------------------
(* main.py: the preference store.  FastAPI parses the body of a request    *)
(* into a UserPrefRequest and answers 422 when that fails; otherwise it    *)
(* calls set_preferences, a coroutine with no await in it, which the event *)
(* loop therefore runs as one step.                                        *)

\* The values a request body may carry in "theme".
ThemeInputs == {"light", "dark", "blue", "Light", ""}

\* theme: Literal["light", "dark"] (line 62).
UserPrefRequest_any(t) == TRUE
UserPrefRequest(t) == t \in {"light", "dark"}

\* _PREFERENCES["theme"] after line 153.
stored(old, requested) == requested

\* The theme of the response (line 154), read from the store after line 153.
response_theme(before, after) == after

Send(c, t) ==
    /\ clients[c].pc = "idle"
    /\ clients' = [clients EXCEPT ![c] = [pc |-> "sent", theme |-> t]]
    /\ UNCHANGED <<pc, call, result, docx_available, theme, lastAccepted, npc,
                   tokens, i, merged>>

Validate(c) ==
    /\ clients[c].pc = "sent"
    /\ clients' = [clients EXCEPT ![c].pc =
                     IF UserPrefRequest(clients[c].theme)
                     THEN "validated" ELSE "rejected"]
    /\ UNCHANGED <<pc, call, result, docx_available, theme, lastAccepted, npc,
                   tokens, i, merged>>

\* set_preferences (lines 152-154).
set_preferences(c) ==
    /\ clients[c].pc = "validated"
    /\ theme' = stored(theme, clients[c].theme)
    /\ lastAccepted' = clients[c].theme
    /\ clients' = [clients EXCEPT ![c] =
                     [pc |-> "answered", theme |-> clients[c].theme,
                      response |-> response_theme(theme, theme')]]
    /\ UNCHANGED <<pc, call, result, docx_available, npc, tokens, i, merged>>

\* The client takes its answer.
Receive(c) ==
    /\ clients[c].pc \in {"answered", "rejected"}
    /\ clients' = [clients EXCEPT ![c] = [pc |-> "idle"]]
    /\ UNCHANGED <<pc, call, result, docx_available, theme, lastAccepted, npc,
                   tokens, i, merged>>

NextPrefs ==
    \E c \in 1..NumClients :
        \/ \E t \in ThemeInputs : Send(c, t)
        \/ Validate(c)
        \/ set_preferences(c)
        \/ Receive(c)

SpecPrefs == Init /\ [][NextPrefs]_vars

----------------------------------------------------------------------------
(* services/analyzer.py: _normalize, one loop iteration at a time.  i is    *)
(* Python's index: tokens[i] there is tokens[i + 1] here.                  *)

NormChunks == {"machine", "Learning", " ", ","}

NormInputs == SeqsUpTo(NormChunks, MaxNormLen)

\* Lines 19-22.
NormalizeStart ==
    /\ npc = "idle"
    /\ \E text \in NormInputs : tokens' = Tokenize(text)
    /\ i' = 0
    /\ merged' = <<>>
    /\ npc' = "loop"
    /\ UNCHANGED <<pc, call, result, docx_available, theme, clients, lastAccepted>>

\* One iteration of the loop of lines 23-31.
MergeStep ==
    /\ npc = "loop"
    /\ i < Len(tokens)
    /\ merged' = Append(merged, emit(tokens, i + 1))
    /\ i' = i + advance(tokens, i + 1)
    /\ UNCHANGED <<pc, call, result, docx_available, theme, clients, lastAccepted,
                   npc, tokens>>

\* The loop ends and line 32 returns merged.
NormalizeReturn ==
    /\ npc = "loop"
    /\ ~(i < Len(tokens))
    /\ npc' = "done"
    /\ UNCHANGED <<pc, call, result, docx_available, theme, clients, lastAccepted,
                   tokens, i, merged>>

\* The caller takes the list.
NormalizeTaken ==
    /\ npc = "done"
    /\ npc' = "idle"
    /\ tokens' = <<>>
    /\ i' = 0
    /\ merged' = <<>>
    /\ UNCHANGED <<pc, call, result, docx_available, theme, clients, lastAccepted>>

NextNormalize ==
    \/ NormalizeStart
    \/ MergeStep
    \/ NormalizeReturn
    \/ NormalizeTaken

\* The call runs to its end: nothing suspends the loop.
SpecNormalize ==
    /\ Init
    /\ [][NextNormalize]_vars
    /\ WF_vars(MergeStep)
    /\ WF_vars(NormalizeReturn)

----------------------------------------------------------------------------
(* Properties of analyze_resume. *)

Abs(x) == IF x < 0 THEN 0 - x ELSE x

\* p, in tenths, is o / n as a percentage to the nearest tenth.
NearestTenth(p, o, n) == 2 * Abs(p * n - 1000 * o) <= n

StrictlyAscending(s) ==
    \A a, b \in 1..Len(s) : a < b => StrRank(s[a]) < StrRank(s[b])

Analyzed == pc = "returned" /\ call.op = "analyze_resume"

\* C1: for every resume and job description, the empty ones included,
\* analyze_resume returns (no division by zero is raised) a match_percent in
\* [0, 100], in the skill branch and in the token fallback branch.
C1_MatchPercentInRange ==
    Analyzed =>
        /\ result.raised = ""
        /\ result.match_percent \in 0..1000

\* C1's case: the empty resume against the empty job description, where the
\* fallback's token count is 0 and the denominator is floored.
C1_Witness ==
    /\ Analyzed
    /\ call.resume = <<>>
    /\ call.job = <<>>
    /\ result.raised = ""
    /\ result.match_percent = 0

\* C3: ats_score is match_percent minus min(30, 5 * number of missing
\* skills), clamped to [0, 100], and so never exceeds match_percent.
C3_AtsAtMostMatch ==
    Analyzed /\ result.raised = "" =>
        /\ result.ats_score <= result.match_percent
        /\ result.ats_score =
              Max(0, Min(1000, result.match_percent
                               - Min(300, 50 * Len(result.missing_skills))))

\* C3's case: skills are missing and the penalty lowers the score.
C3_Witness ==
    /\ Analyzed
    /\ result.raised = ""
    /\ Len(result.missing_skills) >= 7
    /\ result.match_percent > 300
    /\ result.ats_score = result.match_percent - 300

\* C4: when the job description has a recognized skill, match_percent is
\* 100 * |resume_skills /\ job_skills| / |job_skills| to one decimal and
\* missing_skills is job_skills minus resume_skills, sorted, without
\* duplicates; the example of the specification has the values it states.
C4_SkillBranch ==
    Analyzed /\ _extract_skills(call.job) # {} =>
        LET rs == _extract_skills(call.resume)
            js == _extract_skills(call.job)
        IN  /\ result.raised = ""
            /\ NearestTenth(result.match_percent, Cardinality(rs \cap js),
                            Cardinality(js))
            /\ Range(result.missing_skills) = js \ rs
            /\ StrictlyAscending(result.missing_skills)
            /\ (call.resume = EX_RESUME /\ call.job = EX_JOB =>
                    /\ rs = {"python", "docker"}
                    /\ js = {"python", "kubernetes"}
                    /\ result.match_percent = 500
                    /\ result.missing_skills = <<"kubernetes">>
                    /\ result.ats_score = 450
                    /\ MSG_KUBERNETES \in Range(result.suggestions))

\* C4's case: the example of the specification.
C4_Witness ==
    /\ Analyzed
    /\ call.resume = EX_RESUME
    /\ call.job = EX_JOB
    /\ result.match_percent = 500

\* The message of rule 2 for a list of missing skills.
LearnMessage(missing) == MSG_LEARN_PREFIX \o JoinStr(FirstEight(missing), ", ")

\* C5: the suggestions are the messages of the rules that apply, (1)
\* match_percent < 60, (2) skills missing, (3) python without fastapi, (4)
\* docker without kubernetes, each once and in that order; the default alone
\* when no rule applies; never empty.
C5_SuggestionRules ==
    Analyzed /\ result.raised = "" =>
        LET rs == _extract_skills(call.resume)
            sg == result.suggestions
            learn == LearnMessage(result.missing_skills)
            no(m) == CASE m = MSG_QUANTIFY -> 1
                       [] m = learn -> 2
                       [] m = MSG_FASTAPI -> 3
                       [] m = MSG_KUBERNETES -> 4
                       [] m = MSG_DEFAULT -> 5
                       [] OTHER -> 0
            r1 == result.match_percent < 600
            r2 == result.missing_skills # <<>>
            r3 == "python" \in rs /\ "fastapi" \notin rs
            r4 == "docker" \in rs /\ "kubernetes" \notin rs
        IN  /\ Len(sg) >= 1
            /\ \A k \in 1..Len(sg) : no(sg[k]) # 0
            /\ \A a, b \in 1..Len(sg) : a < b => no(sg[a]) < no(sg[b])
            /\ (MSG_QUANTIFY \in Range(sg)) <=> r1
            /\ (learn \in Range(sg)) <=> r2
            /\ (MSG_FASTAPI \in Range(sg)) <=> r3
            /\ (MSG_KUBERNETES \in Range(sg)) <=> r4
            /\ (MSG_DEFAULT \in Range(sg)) <=> ~(r1 \/ r2 \/ r3 \/ r4)

\* C5's case: a match of exactly 60.0 with skills missing and python without
\* fastapi, where rule 1 does not apply and rules 2 and 3 do.
C5_Witness ==
    /\ Analyzed
    /\ result.raised = ""
    /\ result.match_percent = 600
    /\ result.suggestions = <<LearnMessage(<<"aws", "fastapi">>), MSG_FASTAPI>>

\* C8: when the job description has no recognized skill, missing_skills is
\* empty whatever the resume holds, and match_percent is the overlap of the
\* raw tokens.
C8_FallbackNoMissing ==
    Analyzed /\ _extract_skills(call.job) = {} =>
        LET rt == Range(_normalize(call.resume))
            jt == Range(_normalize(call.job))
        IN  /\ result.raised = ""
            /\ result.missing_skills = <<>>
            /\ NearestTenth(result.match_percent, Cardinality(rt \cap jt),
                            Max(1, Cardinality(jt)))

\* C8's case: a resume with skills against a job description with none.
C8_Witness ==
    /\ Analyzed
    /\ call.resume = EX_RESUME
    /\ call.job = EX_NO_SKILL_JOB
    /\ result.missing_skills = <<>>
    /\ result.match_percent = 667

----------------------------------------------------------------------------
(* Properties of _extract_skills. *)

\* C10: every entry of the vocabulary is extracted from some text.
C10_EverySkillExtractable ==
    pc = "returned" /\ call.op = "_extract_skills" =>
        \A s \in KNOWN_SKILLS : \E text \in ExtractInputs : s \in _extract_skills(text)

----------------------------------------------------------------------------
(* Properties of optimize_resume. *)

\* Every line of text starts with the bullet marker, no line is blank and no
\* line has white space at its end.
AlreadyBulleted(text) ==
    Len(text) > 0 =>
        /\ text[1] = "-"
        /\ text[Len(text)] \notin {" ", "\n"}
        /\ \A k \in 1..(Len(text) - 1) :
              /\ text[k] = "\n" => text[k + 1] = "-"
              /\ text[k + 1] = "\n" => text[k] # " "

Optimized(n) == pc = "returned" /\ call.op = "optimize_resume" /\ call.round = n

\* C2 as stated: on already-bulleted, already-trimmed input a second
\* optimize_resume returns what the first returned.
C2_Idempotent ==
    Optimized(2) /\ AlreadyBulleted(call.first) => result = call.text

\* C2 as amended: on such input the first optimize_resume returns the header
\* followed by the input unchanged, and the second returns the header, the
\* first header's two lines with a bullet each, and the input unchanged.
C2_HeaderPrependedAgain ==
    /\ Optimized(1) /\ AlreadyBulleted(call.first) =>
          result = header \o call.first
    /\ Optimized(2) /\ AlreadyBulleted(call.first) =>
          /\ call.text = header \o call.first
          /\ result = header \o <<"-", " ", HEADER_1, "\n", "-", " ", HEADER_2>>
                      \o (IF call.first = <<>> THEN <<>> ELSE <<"\n">> \o call.first)

\* C2's case: optimize_resume applied twice to two bullet lines.
C2_Witness ==
    /\ Optimized(2)
    /\ call.first = <<"-", "a", "\n", "-">>
    /\ result # call.text

----------------------------------------------------------------------------
(* Properties of generate_resume_bytes. *)

upper_of(c) ==
    CASE c = "p" -> "P" [] c = "d" -> "D" [] c = "f" -> "F" [] c = "t" -> "T"
      [] c = "x" -> "X" [] c = "o" -> "O" [] c = "c" -> "C"

\* f is name up to the case of its letters.
SameIgnoringCase(f, name) ==
    /\ Len(f) = Len(name)
    /\ \A k \in 1..Len(name) : f[k] \in {name[k], upper_of(name[k])}

Supported(f) ==
    SameIgnoringCase(f, PDF) \/ SameIgnoringCase(f, TXT) \/ SameIgnoringCase(f, DOCX)

Exported == pc = "returned" /\ call.op = "generate_resume_bytes"

\* C6 as stated: every format string other than pdf, docx or txt, compared
\* without case, fails with "Unsupported format" and yields no artifact.
C6_OtherFormatsFail ==
    Exported /\ ~Supported(call.fmt) =>
        /\ result.raised = "ValueError"
        /\ result.message = "Unsupported format"

\* C6 as amended: every non-empty format string other than pdf, docx or txt,
\* compared without case, fails with "Unsupported format" and yields no
\* artifact; the empty format string yields the PDF artifact.
C6_NonEmptyOtherFormatsFail ==
    Exported =>
        /\ (call.fmt # <<>> /\ ~Supported(call.fmt) =>
              /\ result.raised = "ValueError"
              /\ result.message = "Unsupported format")
        /\ (call.fmt = <<>> =>
              /\ result.raised = ""
              /\ result.media_type = "application/pdf"
              /\ result.filename = "resume.pdf")

\* C6's case: the format "xml".
C6_Witness ==
    /\ Exported
    /\ call.fmt = <<"x", "m", "l">>
    /\ result.raised = "ValueError"

----------------------------------------------------------------------------
(* Properties of the preference store. *)

\* C7: the stored theme is always "light" or "dark"; it is the theme of the
\* last request the handler ran ("light" before any); a request is rejected
\* exactly when its theme is another value; and the response to an accepted
\* request carries the theme that request set.
C7_PreferenceStore ==
    /\ theme \in {"light", "dark"}
    /\ theme = lastAccepted
    /\ \A c \in 1..NumClients :
          /\ clients[c].pc = "rejected" => clients[c].theme \notin {"light", "dark"}
          /\ clients[c].pc \in {"validated", "answered"} =>
                clients[c].theme \in {"light", "dark"}
          /\ clients[c].pc = "answered" => clients[c].response = clients[c].theme

\* C7's case: two requests were accepted one after the other, the first set
\* "dark" and was told so, the second then set "light" and was told so.
C7_Witness ==
    /\ clients[1].pc = "answered"
    /\ clients[1].theme = "dark"
    /\ clients[1].response = "dark"
    /\ clients[2].pc = "answered"
    /\ clients[2].response = "light"
    /\ theme = "light"

----------------------------------------------------------------------------
(* Properties of the merge pass of _normalize. *)

\* An emitted phrase split on its space: the two tokens it was made of.
SplitOnSpace(p) ==
    IF \E a, b \in Range(tokens) : p = a \o " " \o b
    THEN CHOOSE pair \in Range(tokens) \X Range(tokens) :
            p = pair[1] \o " " \o pair[2]
    ELSE <<p>>

RECURSIVE SplitAll(_)
SplitAll(ps) ==
    IF Len(ps) = 0 THEN <<>> ELSE SplitOnSpace(ps[1]) \o SplitAll(Tail(ps))

\* What holds of the pass while it runs and when it has returned: the
\* emitted phrases, split on spaces, are the tokens consumed so far, in
\* order; a phrase of two tokens is a vocabulary skill; two tokens emitted
\* one after the other are not one; and the pass ends at the end of the list.
MergePassSound ==
    npc \in {"loop", "done"} =>
        /\ i <= Len(tokens)
        /\ SplitAll(merged) = SubSeq(tokens, 1, i)
        /\ \A k \in 1..Len(merged) :
              Len(SplitOnSpace(merged[k])) = 2 => merged[k] \in KNOWN_SKILLS
        /\ \A k \in 1..(Len(merged) - 1) :
              Len(SplitOnSpace(merged[k])) = 1 /\ Len(SplitOnSpace(merged[k + 1])) = 1
                  => (merged[k] \o " " \o merged[k + 1]) \notin KNOWN_SKILLS
        /\ npc = "done" => i = Len(tokens)

\* C9: the merge pass emits the merged phrase and advances by two where the
\* current and the next token form a vocabulary skill, else emits the token
\* and advances by one; it consumes every token once and in order, and it
\* terminates.
C9_MergePass == [](MergePassSound) /\ ((npc = "loop") ~> (npc = "done"))

\* C9's case: a pass that merged a pair and then emitted a single token.
C9_Witness ==
    /\ npc = "done"
    /\ tokens = <<"machine", "learning", "machine">>
    /\ merged = <<"machine learning", "machine">>

====
